---- MODULE Spec2Model ----
(***************************************************************************)
(* RealitioERC20Contract (bepro-js): the client-side replay of the         *)
(* LogNewAnswer event log into bond totals and into the argument chain of  *)
(* claimWinnings, together with the IContract.__sendTx gateway it submits  *)
(* through and the ledger it reads.                                        *)
(***************************************************************************)
EXTENDS Integers, Sequences, FiniteSets, TLC

\* Longest event log replayed by the specifications that start from a given log.
MaxEvents == 3
\* Most answers the live ledger of Spec accepts.
MaxLedgerEvents == 2

\* Numbers.nullHash(): the bytes32 zero hash.
nullHash == 0

QuestionIds == {"q1", "q2"}
Users == {"A", "B"}
Answers == {"a1", "a2"}
\* Raw bond amounts as the ledger stores them (integer count of 10^-18 units).
RawBonds == {1, 3}
\* A JS `undefined` (an omitted filter attribute, a missing account).
Undefined == "undefined"
\* best_answer of a question nobody answered.
NoAnswer == "a0"
\* The account the contract object sends from: this.acc.getAccount(), or
\* accounts[0] of web3.eth.getAccounts().
MyAccount == "A"
\* What this.getMyAccount() may answer.
MyAccounts == {MyAccount, Undefined}

VARIABLES
    log,          \* ledger: every LogNewAnswer event, in ledger order
    questions,    \* ledger: questions(questionId) storage
    finalized,    \* ledger: isFinalized(questionId)
    acc,          \* IContract.acc: TRUE when the object holds an account
    op,           \* the public method in progress, "none" when idle
    pc,           \* position inside the method in progress
    questionId,   \* argument questionId of the method in progress
    user,         \* argument user (getQuestionBondsByAnswer), local account
                  \* (getMyBonds) or accounts[0] (__sendTx)
    questionRaw,  \* getQuestion local `question`: the raw questions() read
    question,     \* the Question object getQuestion built
    events,       \* claimWinnings local: the events getPastEvents returned
    chain,        \* claimWinnings local: the four argument sequences
    txCall,       \* __sendTx parameter f: the contract method call to submit
    calls,        \* gateway calls made so far by the call in progress
    txs,          \* transactions __sendTx sent during the call in progress
    ret           \* value returned (or error thrown) by the last call

ledger == <<log, questions, finalized>>
locals == <<questionRaw, question, events, chain, txCall, txs>>
client == <<acc, op, pc, questionId, user, questionRaw, question, events, chain, txCall,
            calls, txs, ret>>
vars == <<log, questions, finalized, acc, op, pc, questionId, user, questionRaw, question,
          events, chain, txCall, calls, txs, ret>>

----------------------------------------------------------------------------
(* JS numbers: IEEE-754 binary64 arithmetic on the non-negative numbers    *)
(* the bond totals take.                                                   *)

\* Unsigned 64-bit integers as four 16-bit limbs, least significant first.
Limb == 65536

U64(n) == <<n % Limb, n \div Limb, 0, 0>>

U64Add(x, y) ==
    LET s1 == x[1] + y[1]
        s2 == x[2] + y[2] + s1 \div Limb
        s3 == x[3] + y[3] + s2 \div Limb
        s4 == x[4] + y[4] + s3 \div Limb
    IN  <<s1 % Limb, s2 % Limb, s3 % Limb, s4 % Limb>>

\* x - y for x >= y
U64Sub(x, y) ==
    LET b1 == IF x[1] < y[1] THEN 1 ELSE 0
        b2 == IF x[2] < y[2] + b1 THEN 1 ELSE 0
        b3 == IF x[3] < y[3] + b2 THEN 1 ELSE 0
    IN  <<x[1] + b1 * Limb - y[1],
          x[2] + b2 * Limb - y[2] - b1,
          x[3] + b3 * Limb - y[3] - b2,
          x[4] - y[4] - b3>>

U64Less(x, y) ==
    \E i \in 1..4 : x[i] < y[i] /\ \A j \in (i + 1)..4 : x[j] = y[j]

\* x * k for a small k (k < 2^15)
U64Times(x, k) ==
    LET p1 == x[1] * k
        p2 == x[2] * k + p1 \div Limb
        p3 == x[3] * k + p2 \div Limb
        p4 == x[4] * k + p3 \div Limb
    IN  <<p1 % Limb, p2 % Limb, p3 % Limb, p4 % Limb>>

\* x shifted right by one bit, a bit shifted out kept in the lowest bit (sticky)
U64ShiftRight(x) ==
    LET h1 == x[1] \div 2 + (x[2] % 2) * (Limb \div 2)
    IN  <<IF x[1] % 2 = 1 /\ h1 % 2 = 0 THEN h1 + 1 ELSE h1,
          x[2] \div 2 + (x[3] % 2) * (Limb \div 2),
          x[3] \div 2 + (x[4] % 2) * (Limb \div 2),
          x[4] \div 2>>

RECURSIVE U64ShiftRightBy(_, _)
U64ShiftRightBy(x, n) == IF n <= 0 THEN x ELSE U64ShiftRightBy(U64ShiftRight(x), n - 1)

RECURSIVE U64Pow10(_)
U64Pow10(k) == IF k <= 0 THEN U64(1) ELSE U64Times(U64Pow10(k - 1), 10)

\* IEEE-754 binary64, non-negative normal numbers and zero: m * 2^e with
\* 2^52 <= m < 2^53, or m = 0.
Two52 == <<0, 0, 0, 16>>
Two53 == <<0, 0, 0, 32>>
Two56 == <<0, 0, 0, 256>>

\* The number literal 0.
Zero == [m |-> U64(0), e |-> 0]

\* Round to nearest, ties to even: x carries three extra low bits (guard,
\* round, sticky), 2^55 <= x < 2^56, and stands for x * 2^e.
RoundNearestEven(x, e) ==
    LET low == x[1] % 8
        t == <<(x[1] \div 8) + (x[2] % 8) * (Limb \div 8),
               (x[2] \div 8) + (x[3] % 8) * (Limb \div 8),
               (x[3] \div 8) + (x[4] % 8) * (Limb \div 8),
               x[4] \div 8>>
        up == low > 4 \/ (low = 4 /\ t[1] % 2 = 1)
        r == IF up THEN U64Add(t, U64(1)) ELSE t
    IN  IF r = Two53 THEN [m |-> Two52, e |-> e + 4] ELSE [m |-> r, e |-> e + 3]

\* JS `a + b` on two non-negative numbers.
DoubleAdd(a, b) ==
    IF a.m = U64(0) THEN b
    ELSE IF b.m = U64(0) THEN a
    ELSE LET hi == IF a.e >= b.e THEN a ELSE b
             lo == IF a.e >= b.e THEN b ELSE a
             d == hi.e - lo.e
             s == U64Add(U64Times(hi.m, 8),
                         U64ShiftRightBy(U64Times(lo.m, 8), IF d > 60 THEN 60 ELSE d))
         IN  IF U64Less(s, Two56)
             THEN RoundNearestEven(s, hi.e - 3)
             ELSE RoundNearestEven(U64ShiftRight(s), hi.e - 2)

\* One step of the long division n / d = (q + r / d) * 2^e: the next
\* quotient bit, until q has 55 bits.
DivideStep(s, d) ==
    IF ~U64Less(s.q, <<0, 0, 0, 64>>) THEN s
    ELSE LET r2 == U64Add(s.r, s.r)
             q2 == U64Add(s.q, s.q)
         IN  IF U64Less(r2, d)
             THEN [q |-> q2, r |-> r2, e |-> s.e - 1]
             ELSE [q |-> U64Add(q2, U64(1)), r |-> U64Sub(r2, d), e |-> s.e - 1]

DivideStep8(s, d) ==
    LET s1 == DivideStep(s, d)
        s2 == DivideStep(s1, d)
        s3 == DivideStep(s2, d)
        s4 == DivideStep(s3, d)
        s5 == DivideStep(s4, d)
        s6 == DivideStep(s5, d)
        s7 == DivideStep(s6, d)
    IN  DivideStep(s7, d)

RECURSIVE DivideBits(_, _)
DivideBits(s, d) ==
    IF ~U64Less(s.q, <<0, 0, 0, 64>>)
    THEN RoundNearestEven(U64Add(U64Add(s.q, s.q), IF s.r = U64(0) THEN U64(0) ELSE U64(1)),
                          s.e - 1)
    ELSE DivideBits(DivideStep8(s, d), d)

RECURSIVE DivideScaled(_, _, _)
DivideScaled(n, d, s) ==
    IF U64Less(n, d) THEN DivideBits([q |-> U64(0), r |-> n, e |-> s], d)
    ELSE DivideScaled(n, U64Add(d, d), s + 1)

\* JS `n / d` for an integer 0 <= n < 2^31 and an integer 0 < d < 2^62.
DoubleDivide(n, d) == IF n = 0 THEN Zero ELSE DivideScaled(U64(n), d, 0)

\* Numbers.fromDecimalsNumber(value, decimals): the number value / 10 ** decimals.
fromDecimalsNumber(value, decimals) == DoubleDivide(value, U64Pow10(decimals))

RECURSIVE Pow10(_)
Pow10(k) == IF k <= 0 THEN 1 ELSE 10 * Pow10(k - 1)

\* Numbers.toSmartContractDecimals(value, decimals): the decimal value, written
\* units * 10^-exp, as an integer count of 10^-decimals units.
toSmartContractDecimals(value, decimals) == value.units * Pow10(decimals - value.exp)

----------------------------------------------------------------------------
(* Array helpers of the JS runtime.                                        *)

\* Array.prototype.reverse
Reverse(s) == [i \in 1..Len(s) |-> s[Len(s) + 1 - i]]

\* Array.prototype.slice(0, -1): all but the last element
SliceDropLast(s) == IF Len(s) = 0 THEN <<>> ELSE SubSeq(s, 1, Len(s) - 1)

\* contract.getPastEvents('LogNewAnswer', {fromBlock: 0, toBlock: 'latest', filter}):
\* the events matching every attribute the filter defines, in ledger order.
Matches(e, filter) ==
    /\ (filter.question_id # Undefined => e.question_id = filter.question_id)
    /\ (filter.user # Undefined => e.user = filter.user)

getPastEvents(evlog, filter) == SelectSeq(evlog, LAMBDA e : Matches(e, filter))

Range(s) == {s[i] : i \in 1..Len(s)}

----------------------------------------------------------------------------
(* RealitioERC20Contract: the pure parts of its methods.                   *)

\* The object literal {}.
EmptyObj == [k \in {} |-> Zero]

\* Faulty variant: the finalization test left out of isClaimed.
IsClaimedHashOnly(isFinalized, q) == q.history_hash = nullHash

\* getQuestion: `isFinalized && question.history_hash === Numbers.nullHash()`
IsClaimed(isFinalized, q) == isFinalized /\ q.history_hash = nullHash

\* getQuestion: the object it returns
QuestionOf(id, q, isFinalized) ==
    [id          |-> id,
     bond        |-> fromDecimalsNumber(q.bond, 18),
     bestAnswer  |-> q.best_answer,
     finalizeTs  |-> q.finalize_ts,
     isFinalized |-> isFinalized,
     isClaimed   |-> IsClaimed(isFinalized, q)]

\* getQuestionBondsByAnswer: the body of answers.forEach
BondsByAnswerStep(bonds, answer) ==
    LET answerId == answer.answer
        \* `if (!bonds[answerId]) bonds[answerId] = 0`: absent and 0 are both falsy
        old == IF answerId \notin DOMAIN bonds \/ bonds[answerId] = Zero
               THEN Zero ELSE bonds[answerId]
    IN  [a \in DOMAIN bonds \cup {answerId} |->
            IF a = answerId
            THEN DoubleAdd(old, fromDecimalsNumber(answer.bond, 18))
            ELSE bonds[a]]

RECURSIVE BondsByAnswerFold(_, _)
BondsByAnswerFold(bonds, answers) ==
    IF answers = <<>> THEN bonds
    ELSE BondsByAnswerFold(BondsByAnswerStep(bonds, Head(answers)), Tail(answers))

\* getQuestionBondsByAnswer({ questionId, user }) over the ledger's event log
getQuestionBondsByAnswer(evlog, qid, usr) ==
    BondsByAnswerFold(EmptyObj, getPastEvents(evlog, [question_id |-> qid, user |-> usr]))

\* getMyBonds: the body of events.forEach
MyBondsStep(bonds, event) ==
    LET qid == event.question_id
        ans == event.answer
        b0 == IF qid \notin DOMAIN bonds
              THEN [total |-> Zero, answers |-> EmptyObj] ELSE bonds[qid]
        a0 == IF ans \notin DOMAIN b0.answers \/ b0.answers[ans] = Zero
              THEN Zero ELSE b0.answers[ans]
        bond == fromDecimalsNumber(event.bond, 18)
        b1 == [total   |-> DoubleAdd(b0.total, bond),
               answers |-> [a \in DOMAIN b0.answers \cup {ans} |->
                               IF a = ans THEN DoubleAdd(a0, bond) ELSE b0.answers[a]]]
    IN  [k \in DOMAIN bonds \cup {qid} |-> IF k = qid THEN b1 ELSE bonds[k]]

RECURSIVE MyBondsFold(_, _)
MyBondsFold(bonds, evs) ==
    IF evs = <<>> THEN bonds
    ELSE MyBondsFold(MyBondsStep(bonds, Head(evs)), Tail(evs))

\* getMyBonds() for the account getMyAccount() returned
getMyBonds(evlog, account) ==
    IF account = Undefined THEN EmptyObj
    ELSE MyBondsFold(EmptyObj, getPastEvents(evlog, [question_id |-> Undefined, user |-> account]))

\* Faulty variant: the isClaimed test left out of the guard.
ClaimGateFinalizedOnly(q) == ~q.isFinalized

\* claimWinnings: `question.isClaimed || !question.isFinalized`
ClaimGate(q) == q.isClaimed \/ ~q.isFinalized

\* events.map(f)
MapHistoryHash(evs) == [i \in 1..Len(evs) |-> evs[i].history_hash]
MapUser(evs) == [i \in 1..Len(evs) |-> evs[i].user]
MapBond(evs) == [i \in 1..Len(evs) |-> evs[i].bond]
MapAnswer(evs) == [i \in 1..Len(evs) |-> evs[i].answer]

\* Faulty variant: slice(1) for slice(0, -1), the oldest hash dropped instead of the newest.
HistoryHashesDropOldest(evs) ==
    Append(Reverse(IF evs = <<>> THEN <<>> ELSE Tail(MapHistoryHash(evs))), nullHash)

\* Faulty variant: the reverse() of the hashes left out.
HistoryHashesUnreversed(evs) ==
    Append(SliceDropLast(MapHistoryHash(evs)), nullHash)

\* claimWinnings: historyHashes, with the null hash pushed
HistoryHashes(evs) == Append(Reverse(SliceDropLast(MapHistoryHash(evs))), nullHash)

\* claimWinnings: addrs, bonds, answers
Addrs(evs) == Reverse(MapUser(evs))
\* Faulty variant: the reverse() of the bonds left out.
BondsUnreversed(evs) == MapBond(evs)
Bonds(evs) == Reverse(MapBond(evs))
AnswersOf(evs) == Reverse(MapAnswer(evs))

\* claimWinnings: the arguments of methods.claimWinnings after questionId
ClaimChain(evs) ==
    [historyHashes |-> HistoryHashes(evs),
     addrs         |-> Addrs(evs),
     bonds         |-> Bonds(evs),
     answers       |-> AnswersOf(evs)]

----------------------------------------------------------------------------
(* IContract.__sendTx                                                      *)

\* The branch __sendTx takes on (this.acc, call).
SendTxRoute(hasAcc, call) ==
    IF ~hasAcc /\ ~call THEN "metamaskCall"
    ELSE IF hasAcc /\ ~call THEN "contract.send"
    ELSE IF hasAcc /\ call THEN "call.from"
    ELSE "call"

\* Faulty variant: the ledger's error caught and turned into `false`.
sendTxSwallow(hasAcc, call, accepted) ==
    IF accepted
    THEN [kind |-> "receipt", via |-> SendTxRoute(hasAcc, call)]
    ELSE [kind |-> "false"]

\* __sendTx(f, call): the receipt when the ledger accepts f, the ledger's
\* error rethrown when it rejects.
sendTx(hasAcc, call, accepted) ==
    IF accepted
    THEN [kind |-> "receipt", via |-> SendTxRoute(hasAcc, call)]
    ELSE [kind |-> "throw", via |-> SendTxRoute(hasAcc, call)]

----------------------------------------------------------------------------
(* The ledger the contract object reads and submits to.                    *)

\* questions(questionId) of a question nobody answered: zero-valued storage.
NoQuestion == [history_hash |-> nullHash, bond |-> 0, best_answer |-> NoAnswer, finalize_ts |-> 0]

NoChain == [historyHashes |-> <<>>, addrs |-> <<>>, bonds |-> <<>>, answers |-> <<>>]
NoQuestionObj == QuestionOf(Undefined, NoQuestion, FALSE)
NoRet == [kind |-> "none"]
NoCall == [method |-> "none"]

EventsOf(evlog, qid) == getPastEvents(evlog, [question_id |-> qid, user |-> Undefined])

\* The transaction the contract object has sent and the ledger has not mined.
InFlight == pc = "sent"

\* The contract object is about to send, or has sent, an answer of its own.
AnswerInFlight ==
    pc \in {"sendTx", "send", "sent"} /\ txCall.method = "submitAnswerERC20"

\* The log and the question after an accepted answer: the answer is appended
\* with a fresh history hash, which becomes the question's current one.
LogAnswered(qid, usr, ans, bond) ==
    Append(log, [question_id |-> qid, user |-> usr, answer |-> ans,
                 bond |-> bond, history_hash |-> Len(log) + 1])

QuestionsAnswered(qid, ans, bond) ==
    [questions EXCEPT ![qid] =
        [history_hash |-> Len(log) + 1, bond |-> bond, best_answer |-> ans, finalize_ts |-> 1]]

\* Another client's answer is accepted.
LedgerNewAnswer(qid, usr, ans, bond) ==
    /\ Len(log) + (IF AnswerInFlight THEN 1 ELSE 0) < MaxLedgerEvents
    /\ ~finalized[qid]
    /\ log' = LogAnswered(qid, usr, ans, bond)
    /\ questions' = QuestionsAnswered(qid, ans, bond)
    /\ UNCHANGED <<finalized, client>>

\* The answer window of an answered question closes.
LedgerFinalize(qid) ==
    /\ ~finalized[qid]
    /\ questions[qid].finalize_ts # 0
    /\ finalized' = [finalized EXCEPT ![qid] = TRUE]
    /\ UNCHANGED <<log, questions, client>>

\* The remote verifier: walks the submitted chain backward from the current
\* history hash, each step naming the event that produced the hash and the
\* hash before it.
RECURSIVE VerifyFrom(_, _, _, _)
VerifyFrom(evs, cur, c, i) ==
    IF i > Len(c.historyHashes) THEN TRUE
    ELSE /\ i <= Len(c.addrs) /\ i <= Len(c.bonds) /\ i <= Len(c.answers)
         /\ \E k \in 1..Len(evs) :
                /\ evs[k].history_hash = cur
                /\ evs[k].user = c.addrs[i]
                /\ evs[k].bond = c.bonds[i]
                /\ evs[k].answer = c.answers[i]
                /\ c.historyHashes[i] = (IF k = 1 THEN nullHash ELSE evs[k - 1].history_hash)
         /\ VerifyFrom(evs, c.historyHashes[i], c, i + 1)

LedgerAccepts(qid, c) ==
    /\ finalized[qid]
    /\ questions[qid].history_hash # nullHash
    /\ Len(c.historyHashes) > 0
    /\ VerifyFrom(EventsOf(log, qid), questions[qid].history_hash, c, 1)

\* A successful claim leaves the last hash of the chain as the current one.
LedgerClaimed(qid, c) ==
    [questions EXCEPT ![qid].history_hash = c.historyHashes[Len(c.historyHashes)]]

\* Another client claims the question first.
LedgerClaimByOther(qid) ==
    /\ LedgerAccepts(qid, ClaimChain(EventsOf(log, qid)))
    /\ questions' = LedgerClaimed(qid, ClaimChain(EventsOf(log, qid)))
    /\ UNCHANGED <<log, finalized, client>>

\* What the ledger decides on a transaction t once it executes it.
LedgerVerdict(t) ==
    IF t.method = "claimWinnings"
    THEN LedgerAccepts(t.questionId, t.args)
    ELSE ~finalized[t.questionId]

\* The transaction the contract object sent is mined: executed against the
\* ledger as it is by then, or reverted.
LedgerMine ==
    /\ InFlight
    /\ LET t == txs[Len(txs)]
           ok == LedgerVerdict(t)
       IN  /\ txs' = [txs EXCEPT ![Len(txs)].status = IF ok THEN "mined" ELSE "reverted"]
           /\ log' = IF ok /\ t.method = "submitAnswerERC20"
                     THEN LogAnswered(t.questionId, t.from, t.args.answerId, t.args.amount)
                     ELSE log
           /\ questions' = IF ~ok THEN questions
                           ELSE IF t.method = "claimWinnings"
                           THEN LedgerClaimed(t.questionId, t.args)
                           ELSE QuestionsAnswered(t.questionId, t.args.answerId, t.args.amount)
    /\ pc' = "mined"
    /\ UNCHANGED <<finalized, acc, op, questionId, user, questionRaw, question, events, chain,
                   txCall, calls, ret>>

----------------------------------------------------------------------------
(* The public methods, one action per stretch between two awaits.          *)

\* getQuestion({ questionId }) is called
CallGetQuestion(qid) ==
    /\ pc = "idle"
    /\ op' = "getQuestion"
    /\ pc' = "questions"
    /\ questionId' = qid
    /\ UNCHANGED <<ledger, acc, user, locals, calls, ret>>

\* claimWinnings(questionId) is called; its first statement is getQuestion
CallClaimWinnings(qid) ==
    /\ pc = "idle"
    /\ op' = "claimWinnings"
    /\ pc' = "questions"
    /\ questionId' = qid
    /\ UNCHANGED <<ledger, acc, user, locals, calls, ret>>

\* getQuestion: `await ...methods.questions(questionId).call()` answers q
ReadQuestions(q) ==
    /\ pc = "questions"
    /\ questionRaw' = q
    /\ calls' = Append(calls, "questions")
    /\ pc' = "isFinalized"
    /\ UNCHANGED <<ledger, acc, op, questionId, user, question, events, chain, txCall, txs, ret>>

\* getQuestion: `await ...methods.isFinalized(questionId).call()` answers f,
\* the Question is built and getQuestion returns it: to its caller, or to
\* the `await this.getQuestion({ questionId })` of claimWinnings
ReadIsFinalized(f) ==
    /\ pc = "isFinalized"
    /\ question' = QuestionOf(questionId, questionRaw, f)
    /\ calls' = Append(calls, "isFinalized")
    /\ IF op = "getQuestion"
       THEN /\ ret' = [kind |-> "question", value |-> question']
            /\ pc' = "done"
       ELSE /\ ret' = ret
            /\ pc' = "getQuestion"
    /\ UNCHANGED <<ledger, acc, op, questionId, user, questionRaw, events, chain, txCall, txs>>

\* claimWinnings resumes after `await this.getQuestion({ questionId })`: its
\* guard returns false, or getPastEvents is requested
ResumeClaimWinnings ==
    /\ pc = "getQuestion"
    /\ IF ClaimGate(question)
       THEN /\ ret' = [kind |-> "false"]
            /\ pc' = "done"
       ELSE /\ ret' = ret
            /\ pc' = "getPastEvents"
    /\ UNCHANGED <<ledger, acc, op, questionId, user, locals, calls>>

\* claimWinnings: `await ...getPastEvents(...)` reads the log evlog, the four
\* argument sequences are built and handed, as methods.claimWinnings(...), to
\* __sendTx
FetchEvents(evlog) ==
    /\ pc = "getPastEvents"
    /\ op = "claimWinnings"
    /\ events' = getPastEvents(evlog, [question_id |-> questionId, user |-> Undefined])
    /\ chain' = ClaimChain(events')
    /\ txCall' = [method |-> "claimWinnings", questionId |-> questionId, args |-> chain']
    /\ calls' = Append(calls, "getPastEvents")
    /\ pc' = "sendTx"
    /\ UNCHANGED <<ledger, acc, op, questionId, user, questionRaw, question, txs, ret>>

\* submitAnswerERC20({ questionId, answerId, amount }) is called:
\* methods.submitAnswerERC20(questionId, answerId, 0, amountDecimals) is
\* handed to __sendTx
CallSubmitAnswerERC20(qid, answerId, amount) ==
    /\ pc = "idle"
    /\ Len(log) < MaxLedgerEvents
    /\ op' = "submitAnswerERC20"
    /\ questionId' = qid
    /\ txCall' = [method |-> "submitAnswerERC20", questionId |-> qid,
                  args |-> [answerId |-> answerId, maxPrevious |-> 0,
                            amount |-> toSmartContractDecimals(amount, 18)]]
    /\ pc' = "sendTx"
    /\ UNCHANGED <<ledger, acc, user, questionRaw, question, events, chain, calls, txs, ret>>

\* __sendTx(f, false) without an account object:
\* `const accounts = await this.params.web3.eth.getAccounts()`
SendTxGetAccounts(accounts) ==
    /\ pc = "sendTx"
    /\ SendTxRoute(acc, FALSE) = "metamaskCall"
    /\ user' = accounts[1]
    /\ calls' = Append(calls, "getAccounts")
    /\ pc' = "send"
    /\ UNCHANGED <<ledger, acc, op, questionId, locals, ret>>

\* __sendTx(f, false): the transaction is sent, by f.send({from: accounts[0]})
\* in __metamaskCall or by this.params.contract.send(this.acc.getAccount(), ...)
SendTxSend ==
    /\ \/ pc = "send"
       \/ pc = "sendTx" /\ SendTxRoute(acc, FALSE) = "contract.send"
    /\ txs' = Append(txs, [method |-> txCall.method, questionId |-> txCall.questionId,
                            args |-> txCall.args,
                            from |-> IF acc THEN MyAccount ELSE user,
                            via |-> SendTxRoute(acc, FALSE), status |-> "sent"])
    /\ calls' = Append(calls, "send")
    /\ pc' = "sent"
    /\ UNCHANGED <<ledger, acc, op, questionId, user, questionRaw, question, events, chain,
                   txCall, ret>>

\* __sendTx(f, false): the pending promise settles, with the receipt (the
\* 'confirmation' event, the resolved send) or with the ledger's error (the
\* 'error' event, the rejected send), and the method returns or throws it
SendTxResult ==
    /\ pc = "mined"
    /\ ret' = sendTx(acc, FALSE, txs[Len(txs)].status = "mined")
    /\ pc' = "done"
    /\ UNCHANGED <<ledger, acc, op, questionId, user, locals, calls>>

\* getQuestionBestAnswer({ questionId }) is called
CallGetQuestionBestAnswer(qid) ==
    /\ pc = "idle"
    /\ op' = "getQuestionBestAnswer"
    /\ pc' = "getBestAnswer"
    /\ questionId' = qid
    /\ UNCHANGED <<ledger, acc, user, locals, calls, ret>>

\* getQuestionBestAnswer: `await ...methods.getBestAnswer(questionId).call()`
\* answers answer, which is returned
ReadBestAnswer(answer) ==
    /\ pc = "getBestAnswer"
    /\ ret' = [kind |-> "answer", value |-> answer]
    /\ calls' = Append(calls, "getBestAnswer")
    /\ pc' = "done"
    /\ UNCHANGED <<ledger, acc, op, questionId, user, locals>>

\* getResultForQuestion({ questionId }) is called
CallGetResultForQuestion(qid) ==
    /\ pc = "idle"
    /\ op' = "getResultForQuestion"
    /\ pc' = "resultFor"
    /\ questionId' = qid
    /\ UNCHANGED <<ledger, acc, user, locals, calls, ret>>

\* getResultForQuestion: `await ...methods.resultFor(questionId).call()`
\* answers answer, which is returned, or is rejected by the ledger, whose
\* error is thrown
ReadResultFor(resolved, answer) ==
    /\ pc = "resultFor"
    /\ ret' = IF resolved THEN [kind |-> "answer", value |-> answer]
              ELSE [kind |-> "throw", via |-> "call"]
    /\ calls' = Append(calls, "resultFor")
    /\ pc' = "done"
    /\ UNCHANGED <<ledger, acc, op, questionId, user, locals>>

\* getQuestionBondsByAnswer({ questionId, user }) is called
CallGetQuestionBondsByAnswer(qid, usr) ==
    /\ pc = "idle"
    /\ op' = "getQuestionBondsByAnswer"
    /\ pc' = "getPastEvents"
    /\ questionId' = qid
    /\ user' = usr
    /\ UNCHANGED <<ledger, acc, locals, calls, ret>>

\* getQuestionBondsByAnswer: `await ...getPastEvents(...)` reads the log
\* evlog, and the bonds are added up by answer
FetchBondsByAnswer(evlog) ==
    /\ pc = "getPastEvents"
    /\ op = "getQuestionBondsByAnswer"
    /\ ret' = [kind |-> "bonds", value |-> getQuestionBondsByAnswer(evlog, questionId, user)]
    /\ calls' = Append(calls, "getPastEvents")
    /\ pc' = "done"
    /\ UNCHANGED <<ledger, acc, op, questionId, user, locals>>

\* getMyBonds() is called
CallGetMyBonds ==
    /\ pc = "idle"
    /\ op' = "getMyBonds"
    /\ pc' = "getMyAccount"
    /\ UNCHANGED <<ledger, acc, questionId, user, locals, calls, ret>>

\* getMyBonds: `await this.getMyAccount()` answers account; without one, {}
\* is returned
ReadMyAccount(account) ==
    /\ pc = "getMyAccount"
    /\ user' = account
    /\ calls' = Append(calls, "getMyAccount")
    /\ IF account = Undefined
       THEN /\ ret' = [kind |-> "myBonds", value |-> EmptyObj]
            /\ pc' = "done"
       ELSE /\ ret' = ret
            /\ pc' = "getPastEvents"
    /\ UNCHANGED <<ledger, acc, op, questionId, locals>>

\* getMyBonds: `await ...getPastEvents(...)` reads the log evlog, and the
\* bonds are added up
FetchMyBonds(evlog) ==
    /\ pc = "getPastEvents"
    /\ op = "getMyBonds"
    /\ ret' = [kind |-> "myBonds", value |-> getMyBonds(evlog, user)]
    /\ calls' = Append(calls, "getPastEvents")
    /\ pc' = "done"
    /\ UNCHANGED <<ledger, acc, op, questionId, user, locals>>

\* The caller takes the result; the object keeps nothing from the call.
Return ==
    /\ pc = "done"
    /\ op' = "none"
    /\ pc' = "idle"
    /\ questionId' = Undefined
    /\ user' = Undefined
    /\ questionRaw' = NoQuestion
    /\ question' = NoQuestionObj
    /\ events' = <<>>
    /\ chain' = NoChain
    /\ txCall' = NoCall
    /\ calls' = <<>>
    /\ txs' = <<>>
    /\ ret' = NoRet
    /\ UNCHANGED <<ledger, acc>>

----------------------------------------------------------------------------
(* Spec: one contract object against a live ledger.                        *)

IdleClient ==
    /\ op = "none"
    /\ pc = "idle"
    /\ questionId = Undefined
    /\ user = Undefined
    /\ questionRaw = NoQuestion
    /\ question = NoQuestionObj
    /\ events = <<>>
    /\ chain = NoChain
    /\ txCall = NoCall
    /\ calls = <<>>
    /\ txs = <<>>
    /\ ret = NoRet

\* The answers other clients post to the live ledger.
LedgerAnswers ==
    {[user |-> "B", answer |-> "a2", bond |-> 3]}

\* The amount submitAnswerERC20 is called with: 10^-18.
Amounts == {[units |-> 1, exp |-> 18]}

Init ==
    /\ log = <<>>
    /\ questions = [q \in QuestionIds |-> NoQuestion]
    /\ finalized = [q \in QuestionIds |-> FALSE]
    /\ acc \in BOOLEAN
    /\ IdleClient

Next ==
    \/ \E q \in QuestionIds, f \in LedgerAnswers : LedgerNewAnswer(q, f.user, f.answer, f.bond)
    \/ \E q \in QuestionIds : LedgerFinalize(q)
    \/ \E q \in QuestionIds : LedgerClaimByOther(q)
    \/ LedgerMine
    \/ \E q \in QuestionIds : CallGetQuestion(q)
    \/ \E q \in QuestionIds : CallClaimWinnings(q)
    \/ ReadQuestions(questions[questionId])
    \/ ReadIsFinalized(finalized[questionId])
    \/ ResumeClaimWinnings
    \/ FetchEvents(log)
    \/ \E q \in QuestionIds, a \in Answers, amount \in Amounts : CallSubmitAnswerERC20(q, a, amount)
    \/ SendTxGetAccounts(<<MyAccount>>)
    \/ SendTxSend
    \/ SendTxResult
    \/ \E q \in QuestionIds : CallGetQuestionBestAnswer(q)
    \/ ReadBestAnswer(questions[questionId].best_answer)
    \/ \E q \in QuestionIds : CallGetResultForQuestion(q)
    \/ ReadResultFor(finalized[questionId], questions[questionId].best_answer)
    \/ \E q \in QuestionIds, u \in Users \cup {Undefined} : CallGetQuestionBondsByAnswer(q, u)
    \/ FetchBondsByAnswer(log)
    \/ CallGetMyBonds
    \/ \E a \in MyAccounts : ReadMyAccount(a)
    \/ FetchMyBonds(log)
    \/ Return

Spec == Init /\ [][Next]_vars

----------------------------------------------------------------------------
(* SpecChain, SpecBonds: the replay of a given event log.                  *)

\* The events a given log is made of: every answer to q1, two answers to q2.
EventFields ==
    [question_id : {"q1"}, user : Users, answer : Answers, bond : RawBonds]
    \cup {[question_id |-> "q2", user |-> "A", answer |-> "a1", bond |-> 1],
          [question_id |-> "q2", user |-> "B", answer |-> "a2", bond |-> 3]}

\* Event logs of up to MaxEvents events; the history hash after the i-th
\* event is i, so no two events carry the same hash.
GivenLogs ==
    UNION {{[i \in 1..n |-> [question_id |-> f[i].question_id, user |-> f[i].user,
                              answer |-> f[i].answer, bond |-> f[i].bond,
                              history_hash |-> i]] : f \in [1..n -> EventFields]}
           : n \in 0..MaxEvents}

\* What questions(questionId).call() may answer.
RawQuestions == {[NoQuestion EXCEPT !.history_hash = h] : h \in {nullHash, 1}}

InitGiven ==
    /\ log \in GivenLogs
    /\ questions = [q \in QuestionIds |-> NoQuestion]
    /\ finalized = [q \in QuestionIds |-> FALSE]
    /\ acc \in BOOLEAN
    /\ IdleClient

\* The transaction sent is mined or reverted, the ledger's verdict left open.
MineOpen ==
    /\ InFlight
    /\ \E ok \in BOOLEAN :
           txs' = [txs EXCEPT ![Len(txs)].status = IF ok THEN "mined" ELSE "reverted"]
    /\ pc' = "mined"
    /\ UNCHANGED <<ledger, acc, op, questionId, user, questionRaw, question, events, chain,
                   txCall, calls, ret>>

\* getQuestion and claimWinnings with the ledger's answers to their reads and
\* to the submission left open.
NextChain ==
    \/ \E q \in QuestionIds : CallGetQuestion(q)
    \/ \E q \in QuestionIds : CallClaimWinnings(q)
    \/ \E q \in RawQuestions : ReadQuestions(q)
    \/ \E f \in BOOLEAN : ReadIsFinalized(f)
    \/ ResumeClaimWinnings
    \/ FetchEvents(log)
    \/ SendTxGetAccounts(<<MyAccount>>)
    \/ SendTxSend
    \/ MineOpen
    \/ SendTxResult
    \/ Return

SpecChain == InitGiven /\ [][NextChain]_vars

NextBonds ==
    \/ \E q \in QuestionIds, u \in Users \cup {Undefined} : CallGetQuestionBondsByAnswer(q, u)
    \/ FetchBondsByAnswer(log)
    \/ CallGetMyBonds
    \/ \E a \in Users \cup {Undefined} : ReadMyAccount(a)
    \/ FetchMyBonds(log)
    \/ Return

SpecBonds == InitGiven /\ [][NextBonds]_vars

----------------------------------------------------------------------------
(* Properties of claimWinnings.                                            *)

\* claimWinnings has returned after submitting; Submitted is what it passed
\* to methods.claimWinnings after questionId.
HasSubmitted == op = "claimWinnings" /\ pc = "done" /\ txs # <<>>
Submitted == txs[1].args

\* C1: claimWinnings returns false without entering __sendTx (no account
\* read, nothing sent) whenever the resolved question is claimed or not
\* finalized, and sends (once) only when it is finalized and not claimed.
ClaimGating ==
    /\ (op = "claimWinnings" /\ pc \in {"questions", "isFinalized", "getQuestion"}) =>
          txs = <<>> /\ txCall = NoCall /\ ret = NoRet
    /\ (op = "claimWinnings" /\ pc \notin {"idle", "questions", "isFinalized", "getQuestion"}) =>
          IF question.isClaimed \/ ~question.isFinalized
          THEN /\ pc = "done"
               /\ ret.kind = "false"
               /\ txs = <<>>
               /\ txCall = NoCall
               /\ calls = <<"questions", "isFinalized">>
          ELSE /\ pc \in {"getPastEvents", "sendTx", "send"} => txs = <<>>
               /\ pc \in {"sent", "mined", "done"} =>
                      Len(txs) = 1 /\ txs[1].method = "claimWinnings"
               /\ pc = "done" => ret.kind \in {"receipt", "throw"}
    \* the guard on each of the four flag combinations
    /\ \A c \in BOOLEAN, f \in BOOLEAN :
          ClaimGate([isClaimed |-> c, isFinalized |-> f]) <=> ~(f /\ ~c)

\* C1 witness: a claimed question made claimWinnings return false, nothing submitted.
ClaimGatingWitness ==
    /\ op = "claimWinnings" /\ pc = "done"
    /\ question.isClaimed /\ question.isFinalized
    /\ ret.kind = "false" /\ txs = <<>>

\* C2 (as claimed): for n fetched events the four submitted sequences all
\* have length n, and the last history hash is the null hash.
ChainLengths ==
    HasSubmitted =>
        /\ Len(Submitted.historyHashes) = Len(events)
        /\ Len(Submitted.addrs) = Len(events)
        /\ Len(Submitted.bonds) = Len(events)
        /\ Len(Submitted.answers) = Len(events)
        /\ Len(events) > 0 => Submitted.historyHashes[Len(events)] = nullHash

\* C3: for n >= 1 events the submitted history hashes are those of
\* e_0..e_(n-2) newest first, followed by the null hash: position i holds the
\* hash before the event at position i of the other three sequences.
HashesShifted ==
    (HasSubmitted /\ Len(events) >= 1) =>
        LET n == Len(events)
            hh == Submitted.historyHashes
        IN  /\ Len(hh) = n
            /\ \A j \in 1..(n - 1) : hh[j] = events[n - j].history_hash
            /\ hh[n] = nullHash
            /\ n = 1 => hh = <<nullHash>>

\* C3 witness: three events submitted, the two older hashes ahead of the null hash.
HashesShiftedWitness ==
    /\ HasSubmitted /\ Len(events) = 3
    /\ Submitted.historyHashes = <<events[2].history_hash, events[1].history_hash, nullHash>>
    /\ events[1].history_hash # events[2].history_hash

\* C4: the submitted addresses, bonds and answers are the fetched events
\* newest first, position i of all three from the same event e_(n-1-i), and
\* the fetched events are exactly the question's events of the log, in order.
ChainAligned ==
    HasSubmitted =>
        LET n == Len(events)
            idx == {i \in 1..Len(log) : log[i].question_id = questionId}
        IN  /\ Len(Submitted.addrs) = n
            /\ Len(Submitted.bonds) = n
            /\ Len(Submitted.answers) = n
            /\ \A j \in 1..n :
                   /\ Submitted.addrs[j] = events[n + 1 - j].user
                   /\ Submitted.bonds[j] = events[n + 1 - j].bond
                   /\ Submitted.answers[j] = events[n + 1 - j].answer
            /\ n = Cardinality(idx)
            /\ \A i \in idx : events[Cardinality({k \in idx : k <= i})] = log[i]

\* C4 witness: three events of two users with different bonds and answers submitted.
ChainAlignedWitness ==
    /\ HasSubmitted /\ Len(events) = 3
    /\ events[1].user # events[3].user
    /\ events[1].bond # events[3].bond
    /\ events[1].answer # events[3].answer
    /\ Len(log) = 3

\* C5 (as claimed): from an empty event sequence the four submitted
\* sequences are all empty.
EmptyChain ==
    (HasSubmitted /\ events = <<>>) =>
        /\ Submitted.historyHashes = <<>>
        /\ Submitted.addrs = <<>>
        /\ Submitted.bonds = <<>>
        /\ Submitted.answers = <<>>

\* C6 (as claimed): with at least two events, position 0 of the submitted
\* chain is taken from the second-oldest event e_1, and the last history
\* hash is the null hash.
PositionZeroSecondOldest ==
    (HasSubmitted /\ Len(events) >= 2) =>
        /\ Submitted.historyHashes[1] = events[2].history_hash
        /\ Submitted.addrs[1] = events[2].user
        /\ Submitted.bonds[1] = events[2].bond
        /\ Submitted.answers[1] = events[2].answer
        /\ Submitted.historyHashes[Len(Submitted.historyHashes)] = nullHash

\* C6 (amended): with at least two events, position 0 of the submitted
\* history hashes is the hash of the second-newest event e_(n-2), position 0
\* of the addresses, bonds and answers is taken from the newest event
\* e_(n-1), and the last history hash is the null hash.
PositionZeroNewest ==
    (HasSubmitted /\ Len(events) >= 2) =>
        LET n == Len(events)
        IN  /\ Submitted.historyHashes[1] = events[n - 1].history_hash
            /\ Submitted.addrs[1] = events[n].user
            /\ Submitted.bonds[1] = events[n].bond
            /\ Submitted.answers[1] = events[n].answer
            /\ Submitted.historyHashes[Len(Submitted.historyHashes)] = nullHash

\* C6 witness: three events submitted whose newest differs from the second-oldest.
PositionZeroWitness ==
    /\ HasSubmitted /\ Len(events) = 3
    /\ Submitted.addrs[1] = events[3].user
    /\ events[3].user # events[2].user
    /\ Submitted.historyHashes[1] = events[2].history_hash

----------------------------------------------------------------------------
(* Properties of getQuestion and of the claimWinnings flow on a live ledger. *)

\* C9: the Question getQuestion returns has isClaimed true exactly when it
\* has isFinalized true and the history hash read from the ledger is the
\* null hash, isFinalized and the hash being the ledger's at the time of
\* each read; no step of getQuestion changes the ledger.
IsClaimedDerived ==
    [][ /\ (op' = "getQuestion" /\ pc' # pc) => UNCHANGED ledger
        /\ (op' = "getQuestion" /\ pc = "questions" /\ pc' # pc) =>
               questionRaw' = questions[questionId]
        /\ (op' = "getQuestion" /\ pc = "isFinalized" /\ pc' # pc) =>
               ret'.value.isFinalized = finalized[questionId]
        /\ (op' = "getQuestion" /\ pc' = "done") =>
               /\ ret'.kind = "question"
               /\ ret'.value.isClaimed <=>
                      (ret'.value.isFinalized /\ questionRaw'.history_hash = nullHash)
               /\ ret'.value.isClaimed => ret'.value.isFinalized
      ]_vars

\* C9 witness: getQuestion returned a claimed question.
IsClaimedWitness ==
    /\ op = "getQuestion" /\ pc = "done"
    /\ ret.value.isClaimed
    /\ Len(log) > 0

IsPrefix(s, t) == Len(s) <= Len(t) /\ s = SubSeq(t, 1, Len(s))

\* The gateway calls of a claimWinnings that passes its guard.
ClaimPath ==
    IF acc THEN <<"questions", "isFinalized", "getPastEvents", "send">>
    ELSE <<"questions", "isFinalized", "getPastEvents", "getAccounts", "send">>

\* C10: claimWinnings makes the state reads, then the event read, then one
\* submission, in that order and never twice; once past its guard it sends
\* the chain of the events it fetched whatever the ledger has become, the
\* ledger as it is when the transaction is mined decides the outcome, and
\* that outcome reaches the caller: the receipt when the ledger accepts, its
\* error thrown (never false) when it rejects.
ClaimSequencing ==
    [][ op' = "claimWinnings" =>
          /\ IsPrefix(calls', ClaimPath)
          /\ Len(txs') <= 1
          /\ (pc = "isFinalized" /\ pc' # pc) => pc' = "getQuestion"
          /\ (pc = "getQuestion" /\ pc' # pc) =>
                /\ pc' = (IF question.isClaimed \/ ~question.isFinalized
                          THEN "done" ELSE "getPastEvents")
                /\ calls' = calls
                /\ UNCHANGED ledger
          /\ (pc = "getPastEvents" /\ pc' # pc) => pc' = "sendTx"
          /\ (pc = "sendTx" /\ pc' # pc) => pc' = (IF acc THEN "sent" ELSE "send")
          /\ (pc = "send" /\ pc' # pc) => pc' = "sent"
          /\ (pc \in {"sendTx", "send"} /\ pc' = "sent") =>
                /\ Len(txs') = 1
                /\ txs'[1].method = "claimWinnings"
                /\ txs'[1].questionId = questionId
                /\ txs'[1].args.historyHashes = HistoryHashes(events)
                /\ txs'[1].args.addrs = Addrs(events)
                /\ txs'[1].args.bonds = Bonds(events)
                /\ txs'[1].args.answers = AnswersOf(events)
                /\ txs'[1].via \in {"metamaskCall", "contract.send"}
          /\ (pc = "sent" /\ pc' # pc) =>
                /\ pc' = "mined"
                /\ (txs'[1].status = "mined") <=> LedgerAccepts(questionId, chain)
                /\ (txs'[1].status = "reverted") <=> ~LedgerAccepts(questionId, chain)
          /\ (pc = "mined" /\ pc' # pc) =>
                /\ pc' = "done"
                /\ txs' = txs
                /\ ret'.kind = IF txs[1].status = "mined" THEN "receipt" ELSE "throw"
      ]_vars

\* C10 witness: another client claimed between the state read and the
\* submission; the chain was submitted all the same and the rejection thrown.
ClaimSequencingWitness ==
    /\ HasSubmitted
    /\ ~question.isClaimed
    /\ questions[questionId].history_hash = nullHash
    /\ ret.kind = "throw"
    /\ Len(events) = 2

----------------------------------------------------------------------------
(* Properties of the bond aggregation.                                     *)

TotalOf(bonds, a) == IF a \in DOMAIN bonds THEN bonds[a] ELSE Zero

RECURSIVE DoubleSum(_, _)
DoubleSum(f, S) ==
    IF S = {} THEN Zero
    ELSE LET x == CHOOSE x \in S : TRUE IN DoubleAdd(DoubleSum(f, S \ {x}), f[x])

\* C7 (as claimed): the per-answer totals without a user filter are, for
\* every answer, the sum over all users of the totals with that user as
\* filter, and an answer somebody bonded is never missing from the totals.
BondsAdditive ==
    (op = "getQuestionBondsByAnswer" /\ pc = "done" /\ user = Undefined) =>
        /\ \A a \in Answers :
              TotalOf(ret.value, a) =
                  DoubleSum([u \in Users |->
                                TotalOf(getQuestionBondsByAnswer(log, questionId, u), a)], Users)
        /\ DOMAIN ret.value =
               UNION {DOMAIN getQuestionBondsByAnswer(log, questionId, u) : u \in Users}

Permute(s, p) == [i \in 1..Len(s) |-> s[p[i]]]

\* C8 (as claimed): the totals returned by getQuestionBondsByAnswer and by
\* getMyBonds are those obtained from every permutation of the event log.
BondsOrderIndependent ==
    /\ (op = "getQuestionBondsByAnswer" /\ pc = "done") =>
          \A p \in Permutations(1..Len(log)) :
              getQuestionBondsByAnswer(Permute(log, p), questionId, user) = ret.value
    /\ (op = "getMyBonds" /\ pc = "done") =>
          \A p \in Permutations(1..Len(log)) :
              getMyBonds(Permute(log, p), user) = ret.value

====
